---- MODULE Spec2Model ----
(***************************************************************************)
(* Model of the toy transaction engine: the fixed-point Price, the         *)
(* Account, the TransactionContext (ledger) and the TransactionProcessor   *)
(* draining a single-producer/single-consumer ring buffer fed by the CSV   *)
(* source thread.                                                          *)
(*                                                                         *)
(* Price is an i64 in the program.  The model keeps two's-complement       *)
(* arithmetic but with PriceBits bits, so that overflow is reachable.      *)
(***************************************************************************)
EXTENDS Integers, Sequences, FiniteSets, TLC

\* ---------------------------------------------------------------- bounds
PriceBits == 4
NumClients == 2
NumTxs == 2
MaxEvents == 5
MaxRows == 3
QueueCap == 2

PRICE_MAX == 2^(PriceBits - 1) - 1
PRICE_MIN == -(2^(PriceBits - 1))

Clients == 1..NumClients
Txs == 1..NumTxs

\* amounts of the deposit and withdrawal rows of the ledger specification, as
\* they arrive from the wire (already converted to Price by serde)
WireAmounts == {-3, PRICE_MAX}

TransactionType == {"Deposit", "Withdrawal", "Dispute", "Resolve", "Chargeback"}

TransactionFlags == {"None", "Disputed", "Resolved", "Chargeback"}

TransactionError ==
    {"Overflow", "Duplicate", "NotFound", "InvalidDispute", "InsufficientFunds", "Locked"}

TransactionEvent ==
    [amount : PRICE_MIN..PRICE_MAX, tx : Txs, client_id : Clients, ty : TransactionType]

Monetary == {"Deposit", "Withdrawal"}

\* rows the CSV source thread reads in the pipeline specification: deposits
\* and disputes of one client; the amount of a dispute row defaults to zero
SourceRows ==
    {e \in TransactionEvent :
        /\ e.client_id = 1
        /\ e.ty \in {"Deposit", "Dispute"}
        /\ e.amount \in (IF e.ty \in Monetary THEN {PRICE_MIN, -3} ELSE {0})}

\* ------------------------------------------------------------ variables
VARIABLES
    transactions,   \* TransactionContext.transactions : tx -> (Price, TransactionFlags)
    accounts,       \* TransactionContext.accounts : client -> Account
    owner,          \* history: client_id of the event that inserted each record
    last,           \* history: the event processed last and what was logged for it
    rows,           \* number of rows the CSV source has read so far
    queue,          \* the ring buffer between producer and consumer
    pushed,         \* history: events the producer pushed, in push order
    applied,        \* history: events the processor applied, in order
    ppc,            \* producer thread: "running", "done", "panicked"
    cpc             \* processor: "idle", "pop", "check", "done", "panicked"

vars == <<transactions, accounts, owner, last, rows, queue, pushed, applied, ppc, cpc>>

\* ------------------------------------------------------------- Price
InRange(v) == v >= PRICE_MIN /\ v <= PRICE_MAX

\* two's-complement wrap-around of a release build
Wrap(v) == ((v - PRICE_MIN) % (2^PriceBits)) + PRICE_MIN

\* i64::checked_add inside Price::try_add: the value is kept on overflow
try_add(self, other) ==
    IF InRange(self + other)
    THEN [ok |-> TRUE, val |-> self + other]
    ELSE [ok |-> FALSE, val |-> self]

\* i64::checked_sub inside Price::try_sub
try_sub(self, other) ==
    IF InRange(self - other)
    THEN [ok |-> TRUE, val |-> self - other]
    ELSE [ok |-> FALSE, val |-> self]

\* Price::make_absolute: i64::abs panics on MIN in a debug build and
\* returns MIN in a release build
make_absolute(self, bld) ==
    IF self = PRICE_MIN
    THEN (IF bld = "debug" THEN [panic |-> TRUE, val |-> self]
                           ELSE [panic |-> FALSE, val |-> PRICE_MIN])
    ELSE [panic |-> FALSE, val |-> (IF self < 0 THEN -self ELSE self)]

\* ------------------------------------------------------------ Account
DefaultAccount == [total |-> 0, held |-> 0, locked |-> FALSE]

\* Account::available: an unchecked subtraction
available(acc, bld) ==
    IF InRange(acc.total - acc.held)
    THEN [panic |-> FALSE, val |-> acc.total - acc.held]
    ELSE (IF bld = "debug" THEN [panic |-> TRUE, val |-> 0]
                           ELSE [panic |-> FALSE, val |-> Wrap(acc.total - acc.held)])

withdraw(acc, amount, bld) ==
    IF acc.locked THEN [acc |-> acc, err |-> "Locked"]
    ELSE LET av == available(acc, bld) IN
         IF av.panic THEN [acc |-> acc, err |-> "Panic"]
         ELSE IF amount > av.val THEN [acc |-> acc, err |-> "InsufficientFunds"]
         ELSE LET s == try_sub(acc.total, amount) IN
              IF ~s.ok THEN [acc |-> acc, err |-> "Overflow"]
              ELSE [acc |-> [acc EXCEPT !.total = s.val], err |-> "Ok"]

\* deposit without the test of the locked flag
deposit_ignores_lock(acc, amount) ==
    LET s == try_add(acc.total, amount) IN
    IF ~s.ok THEN [acc |-> acc, err |-> "Overflow"]
    ELSE [acc |-> [acc EXCEPT !.total = s.val], err |-> "Ok"]

deposit(acc, amount) ==
    IF acc.locked THEN [acc |-> acc, err |-> "Locked"]
    ELSE LET s == try_add(acc.total, amount) IN
         IF ~s.ok THEN [acc |-> acc, err |-> "Overflow"]
         ELSE [acc |-> [acc EXCEPT !.total = s.val], err |-> "Ok"]

\* ------------------------------------------------- TransactionContext
\* HashMap insert / remove on a map kept as a function
Insert(m, k, v) == [x \in (DOMAIN m) \cup {k} |-> IF x = k THEN v ELSE m[x]]
Remove(m, k) == [x \in (DOMAIN m) \ {k} |-> m[x]]

EmptyMap == [x \in {} |-> 0]

Result(txs, accs, err) == [transactions |-> txs, accounts |-> accs, err |-> err]

\* handle_transaction without the Entry::Vacant test
handle_transaction_overwrite(txs, accs, client_id, tx, amount, dw, bld) ==
    LET txs1 == Insert(txs, tx, [amount |-> amount, flags |-> "None"])
        acc0 == IF client_id \in DOMAIN accs THEN accs[client_id] ELSE DefaultAccount
        r == IF dw = "Deposit" THEN deposit(acc0, amount)
                               ELSE withdraw(acc0, amount, bld)
        accs1 == Insert(accs, client_id, r.acc)
    IN  IF r.err = "Ok" THEN Result(txs1, accs1, "Ok")
        ELSE IF r.err = "Panic" THEN Result(txs1, accs1, "Panic")
        ELSE Result(Remove(txs1, tx), accs1, r.err)

\* handle_transaction without the removal of the record after a failure
handle_transaction_keeps_record(txs, accs, client_id, tx, amount, dw, bld) ==
    IF tx \in DOMAIN txs THEN Result(txs, accs, "Duplicate")
    ELSE LET txs1 == Insert(txs, tx, [amount |-> amount, flags |-> "None"])
             acc0 == IF client_id \in DOMAIN accs THEN accs[client_id] ELSE DefaultAccount
             r == IF dw = "Deposit" THEN deposit(acc0, amount)
                                    ELSE withdraw(acc0, amount, bld)
             accs1 == Insert(accs, client_id, r.acc)
         IN  Result(txs1, accs1, r.err)

\* handle_transaction that removes the record of a duplicate tx id as well
handle_transaction_removes_duplicate(txs, accs, client_id, tx, amount, dw, bld) ==
    IF tx \in DOMAIN txs THEN Result(Remove(txs, tx), accs, "Duplicate")
    ELSE LET txs1 == Insert(txs, tx, [amount |-> amount, flags |-> "None"])
             acc0 == IF client_id \in DOMAIN accs THEN accs[client_id] ELSE DefaultAccount
             r == IF dw = "Deposit" THEN deposit(acc0, amount)
                                    ELSE withdraw(acc0, amount, bld)
             accs1 == Insert(accs, client_id, r.acc)
         IN  IF r.err = "Ok" THEN Result(txs1, accs1, "Ok")
             ELSE IF r.err = "Panic" THEN Result(txs1, accs1, "Panic")
             ELSE Result(Remove(txs1, tx), accs1, r.err)

handle_transaction(txs, accs, client_id, tx, amount, dw, bld) ==
    IF tx \in DOMAIN txs THEN Result(txs, accs, "Duplicate")
    ELSE LET txs1 == Insert(txs, tx, [amount |-> amount, flags |-> "None"])
             acc0 == IF client_id \in DOMAIN accs THEN accs[client_id] ELSE DefaultAccount
             r == IF dw = "Deposit" THEN deposit(acc0, amount)
                                    ELSE withdraw(acc0, amount, bld)
             accs1 == Insert(accs, client_id, r.acc)
         IN  IF r.err = "Ok" THEN Result(txs1, accs1, "Ok")
             ELSE IF r.err = "Panic" THEN Result(txs1, accs1, "Panic")
             ELSE Result(Remove(txs1, tx), accs1, r.err)

\* handle_dispute that holds the amount on every account
handle_dispute_holds_everywhere(txs, accs, client_id, tx) ==
    IF tx \notin DOMAIN txs THEN Result(txs, accs, "NotFound")
    ELSE LET txs1 == [txs EXCEPT ![tx].flags = "Disputed"] IN
         IF client_id \notin DOMAIN accs THEN Result(txs1, accs, "InvalidDispute")
         ELSE Result(txs1,
                     [c \in DOMAIN accs |->
                        [accs[c] EXCEPT !.held = try_add(@, txs[tx].amount).val]],
                     "Ok")

handle_dispute(txs, accs, client_id, tx) ==
    IF tx \notin DOMAIN txs THEN Result(txs, accs, "NotFound")
    ELSE LET txs1 == [txs EXCEPT ![tx].flags = "Disputed"] IN
         IF client_id \notin DOMAIN accs THEN Result(txs1, accs, "InvalidDispute")
         ELSE Result(txs1,
                     [accs EXCEPT ![client_id].held = try_add(@, txs[tx].amount).val],
                     "Ok")

handle_resolve(txs, accs, client_id, tx) ==
    IF tx \notin DOMAIN txs THEN Result(txs, accs, "NotFound")
    ELSE IF txs[tx].flags # "Disputed" THEN Result(txs, accs, "InvalidDispute")
    ELSE IF client_id \notin DOMAIN accs THEN Result(txs, accs, "InvalidDispute")
    ELSE Result([txs EXCEPT ![tx].flags = "Resolved"],
                [accs EXCEPT ![client_id].held = try_sub(@, txs[tx].amount).val],
                "Ok")

\* handle_chargeback without the test of the Disputed flag
handle_chargeback_any_state(txs, accs, client_id, tx) ==
    IF tx \notin DOMAIN txs THEN Result(txs, accs, "NotFound")
    ELSE IF client_id \notin DOMAIN accs THEN Result(txs, accs, "InvalidDispute")
    ELSE Result([txs EXCEPT ![tx].flags = "Chargeback"],
                [accs EXCEPT ![client_id] =
                    [total |-> try_sub(@.total, txs[tx].amount).val,
                     held |-> try_sub(@.held, txs[tx].amount).val,
                     locked |-> TRUE]],
                "Ok")

handle_chargeback(txs, accs, client_id, tx) ==
    IF tx \notin DOMAIN txs THEN Result(txs, accs, "NotFound")
    ELSE IF txs[tx].flags # "Disputed" THEN Result(txs, accs, "InvalidDispute")
    ELSE IF client_id \notin DOMAIN accs THEN Result(txs, accs, "InvalidDispute")
    ELSE Result([txs EXCEPT ![tx].flags = "Chargeback"],
                [accs EXCEPT ![client_id] =
                    [total |-> try_sub(@.total, txs[tx].amount).val,
                     held |-> try_sub(@.held, txs[tx].amount).val,
                     locked |-> TRUE]],
                "Ok")

\* ----------------------------------------------- TransactionProcessor
\* update_accounts: the match on event.ty
update_accounts(txs, accs, event, bld) ==
    CASE event.ty = "Deposit" ->
            handle_transaction(txs, accs, event.client_id, event.tx, event.amount, "Deposit", bld)
      [] event.ty = "Withdrawal" ->
            handle_transaction(txs, accs, event.client_id, event.tx, event.amount, "Withdraw", bld)
      [] event.ty = "Dispute" -> handle_dispute(txs, accs, event.client_id, event.tx)
      [] event.ty = "Resolve" -> handle_resolve(txs, accs, event.client_id, event.tx)
      [] event.ty = "Chargeback" -> handle_chargeback(txs, accs, event.client_id, event.tx)

\* body of the run loop for one popped event: make_absolute, update_accounts
process_event(txs, accs, event, bld) ==
    LET a == make_absolute(event.amount, bld) IN
    IF a.panic THEN Result(txs, accs, "Panic")
    ELSE update_accounts(txs, accs, [event EXCEPT !.amount = a.val], bld)

NoEvent == [ty |-> "none", client_id |-> 0, tx |-> 0, err |-> "Ok"]

\* An arithmetic overflow outside checked_add/checked_sub panics in a build
\* with overflow checks (debug) and wraps in one without (release).
Builds == {"debug", "release"}

\* what processing event can do to the ledger, over the builds
Outcomes(event) == {process_event(transactions, accounts, event, bld) : bld \in Builds}

\* the ledger part of a step that processes event
ApplyToLedger(event) ==
    \E r \in Outcomes(event) :
        /\ transactions' = r.transactions
        /\ accounts' = r.accounts
        /\ owner' = [t \in DOMAIN r.transactions |->
                        IF t \in DOMAIN transactions THEN owner[t] ELSE event.client_id]
        /\ last' = [ty |-> event.ty, client_id |-> event.client_id, tx |-> event.tx,
                    err |-> r.err]

InitLedger ==
    /\ transactions = EmptyMap
    /\ accounts = EmptyMap
    /\ owner = EmptyMap
    /\ last = NoEvent

InitPipe ==
    /\ rows = 0
    /\ queue = <<>>
    /\ pushed = <<>>
    /\ applied = <<>>
    /\ ppc = "running"

\* ------------------------------------------- specification: the ledger
\* The processor applies an arbitrary event stream to the ledger.
Init ==
    /\ InitLedger
    /\ InitPipe
    /\ cpc = "idle"

\* Client ids and tx ids are interchangeable: the handlers only test them for
\* equality.  A row that names an id with no account (no record) names the
\* least such id.
Least(S) == CHOOSE x \in S : \A y \in S : x <= y

RowClients ==
    (DOMAIN accounts) \cup
        (IF Clients \subseteq DOMAIN accounts THEN {} ELSE {Least(Clients \ DOMAIN accounts)})

RowTxs ==
    (DOMAIN transactions) \cup
        (IF Txs \subseteq DOMAIN transactions THEN {} ELSE {Least(Txs \ DOMAIN transactions)})

Ev(ty, c, t, a) == [amount |-> a, tx |-> t, client_id |-> c, ty |-> ty]

\* one iteration of the run loop on an event taken from the stream
Step(event) ==
    /\ rows' = rows + 1
    /\ ApplyToLedger(event)
    /\ cpc' = IF last'.err = "Panic" THEN "panicked" ELSE "idle"
    /\ UNCHANGED <<queue, pushed, applied, ppc>>

Deposit ==
    /\ cpc = "idle" /\ rows < MaxEvents
    /\ \E c \in RowClients, t \in RowTxs, a \in WireAmounts : Step(Ev("Deposit", c, t, a))

Withdrawal ==
    /\ cpc = "idle" /\ rows < MaxEvents
    /\ \E c \in RowClients, t \in RowTxs, a \in WireAmounts : Step(Ev("Withdrawal", c, t, a))

\* the amount of a dispute, resolve or chargeback row defaults to zero
Dispute ==
    /\ cpc = "idle" /\ rows < MaxEvents
    /\ \E c \in RowClients, t \in RowTxs : Step(Ev("Dispute", c, t, 0))

Resolve ==
    /\ cpc = "idle" /\ rows < MaxEvents
    /\ \E c \in RowClients, t \in RowTxs : Step(Ev("Resolve", c, t, 0))

Chargeback ==
    /\ cpc = "idle" /\ rows < MaxEvents
    /\ \E c \in RowClients, t \in RowTxs : Step(Ev("Chargeback", c, t, 0))

Next == Deposit \/ Withdrawal \/ Dispute \/ Resolve \/ Chargeback

Spec == Init /\ [][Next]_vars

\* ------------------------------------- specification: the pipeline
\* The CSV source thread pushes rows into the ring buffer while the
\* processor runs its drain loop.  push, pop, is_abandoned and the drop of
\* the Producer are the atomic steps of the two threads.
InitPipeline ==
    /\ InitLedger
    /\ InitPipe
    /\ cpc = "pop"

\* csv_source: producer.push(transaction) succeeds
ProducerPush ==
    /\ ppc = "running"
    /\ rows < MaxRows
    /\ Len(queue) < QueueCap
    /\ \E e \in SourceRows :
          /\ queue' = Append(queue, e)
          /\ pushed' = Append(pushed, e)
    /\ rows' = rows + 1
    /\ UNCHANGED <<transactions, accounts, owner, last, applied, ppc, cpc>>

\* csv_source: push returns Err(Full) and expect("CSV source died") panics;
\* the unwinding thread drops the Producer
ProducerPushFull ==
    /\ ppc = "running"
    /\ rows < MaxRows
    /\ Len(queue) = QueueCap
    /\ rows' = rows + 1
    /\ ppc' = "panicked"
    /\ UNCHANGED <<transactions, accounts, owner, last, queue, pushed, applied, cpc>>

\* csv_source: the row iterator is exhausted, the closure returns and the
\* Producer is dropped
ProducerExit ==
    /\ ppc = "running"
    /\ ppc' = "done"
    /\ UNCHANGED <<transactions, accounts, owner, last, rows, queue, pushed, applied, cpc>>

\* Consumer::is_abandoned: the Producer has been dropped
is_abandoned == ppc # "running"

\* run: consumer.pop() returns Ok(event); make_absolute; update_accounts
ConsumerPop ==
    /\ cpc = "pop"
    /\ queue # <<>>
    /\ ApplyToLedger(Head(queue))
    /\ queue' = Tail(queue)
    /\ applied' = Append(applied, Head(queue))
    /\ cpc' = IF last'.err = "Panic" THEN "panicked" ELSE "pop"
    /\ UNCHANGED <<rows, pushed, ppc>>

\* run: consumer.pop() returns Err(Empty)
ConsumerPopEmpty ==
    /\ cpc = "pop"
    /\ queue = <<>>
    /\ cpc' = "check"
    /\ UNCHANGED <<transactions, accounts, owner, last, rows, queue, pushed, applied, ppc>>

\* run: is_abandoned() is true, break
ConsumerBreak ==
    /\ cpc = "check"
    /\ is_abandoned
    /\ cpc' = "done"
    /\ UNCHANGED <<transactions, accounts, owner, last, rows, queue, pushed, applied, ppc>>

\* run: is_abandoned() is false, next iteration of the loop
ConsumerLoop ==
    /\ cpc = "check"
    /\ ~is_abandoned
    /\ cpc' = "pop"
    /\ UNCHANGED <<transactions, accounts, owner, last, rows, queue, pushed, applied, ppc>>

NextPipeline ==
    \/ ProducerPush \/ ProducerPushFull \/ ProducerExit
    \/ ConsumerPop \/ ConsumerPopEmpty \/ ConsumerBreak \/ ConsumerLoop

SpecPipeline == InitPipeline /\ [][NextPipeline]_vars

\* The two threads are scheduled fairly: a thread that can take a step
\* eventually takes one.
ProducerStep == ProducerPush \/ ProducerPushFull \/ ProducerExit

ConsumerStep == ConsumerPop \/ ConsumerPopEmpty \/ ConsumerBreak \/ ConsumerLoop

SpecPipelineFair ==
    InitPipeline /\ [][NextPipeline]_vars /\ WF_vars(ProducerStep) /\ WF_vars(ConsumerStep)

\* ------------------------------------------------------------- claims
\* every recorded amount is non-negative (no wrapped i64::MIN was applied)
NoNegativeRecord == \A t \in DOMAIN transactions : transactions[t].amount >= 0

\* C1: after any sequence of events every account has held <= total
\* (available is never negative), here even when only non-negative amounts
\* were ever recorded.
C1_HeldNeverExceedsTotal ==
    NoNegativeRecord => \A c \in DOMAIN accounts : accounts[c].held <= accounts[c].total

\* C2: after any sequence of events every account has total >= 0, here even
\* when only non-negative amounts were ever recorded.
C2_TotalNeverNegative ==
    NoNegativeRecord => \A c \in DOMAIN accounts : accounts[c].total >= 0

\* C3: a dispute whose client differs from the client that made the
\* referenced deposit/withdrawal changes no account and no record.
C3_ForeignDisputeRejected ==
    [][(/\ last'.ty = "Dispute"
        /\ last'.tx \in DOMAIN transactions
        /\ owner[last'.tx] # last'.client_id)
       => (accounts' = accounts /\ transactions' = transactions)]_vars

\* the edges of the dispute state machine
DisputeEdges ==
    {<<"None", "Disputed">>, <<"Disputed", "Resolved">>, <<"Disputed", "Chargeback">>}

\* C4: a record's dispute state only changes along None->Disputed,
\* Disputed->Resolved and Disputed->Chargeback, and a dispute on a record
\* that is already Disputed changes nothing.
C4_DisputeStateMachine ==
    [][/\ \A t \in (DOMAIN transactions) \cap (DOMAIN transactions') :
             \/ transactions'[t].flags = transactions[t].flags
             \/ <<transactions[t].flags, transactions'[t].flags>> \in DisputeEdges
       /\ (/\ last'.ty = "Dispute"
           /\ last'.tx \in DOMAIN transactions
           /\ transactions[last'.tx].flags = "Disputed")
          => (accounts' = accounts /\ transactions' = transactions)]_vars

\* C5: a deposit or withdrawal whose tx id already has a record is a no-op:
\* the record mapping (one record for that tx id, original amount and
\* dispute state) and every account are unchanged.
C5_DuplicateIsNoOp ==
    [][(last'.ty \in Monetary /\ last'.tx \in DOMAIN transactions)
       => (/\ transactions' = transactions
           /\ accounts' = accounts
           /\ last'.err \in {"Duplicate", "Panic"})]_vars

\* a deposit or withdrawal of another client was rejected as Duplicate
C5_Witness ==
    /\ last.ty \in Monetary
    /\ last.err = "Duplicate"
    /\ last.tx \in DOMAIN transactions
    /\ owner[last.tx] # last.client_id
    /\ transactions[last.tx].flags = "Disputed"

\* C6: a resolve or chargeback naming a tx id with no record, or a record
\* that is not Disputed, changes no account and no record and creates none.
C6_InvalidResolveChargebackRejected ==
    [][(/\ last'.ty \in {"Resolve", "Chargeback"}
        /\ \/ last'.tx \notin DOMAIN transactions
           \/ transactions[last'.tx].flags # "Disputed")
       => (/\ transactions' = transactions
           /\ accounts' = accounts
           /\ last'.err \in {"NotFound", "InvalidDispute", "Panic"})]_vars

\* a chargeback of a record that was resolved before was rejected, with an
\* account that holds funds
C6_Witness ==
    /\ last.ty = "Chargeback"
    /\ last.err = "InvalidDispute"
    /\ last.tx \in DOMAIN transactions
    /\ transactions[last.tx].flags = "Resolved"
    /\ last.client_id \in DOMAIN accounts
    /\ accounts[last.client_id].total > 0

\* C7: every accepted chargeback (record Disputed, issued by the owning
\* client) sets locked and lowers both held and total by exactly the
\* record's amount, here even when only non-negative amounts were recorded.
C7_ChargebackEffect ==
    [][(/\ last'.ty = "Chargeback"
        /\ last'.tx \in DOMAIN transactions
        /\ transactions[last'.tx].flags = "Disputed"
        /\ owner[last'.tx] = last'.client_id
        /\ last'.client_id \in DOMAIN accounts
        /\ NoNegativeRecord)
       => LET c == last'.client_id
              a == transactions[last'.tx].amount
          IN  /\ accounts'[c].locked
              /\ accounts'[c].held = accounts[c].held - a
              /\ accounts'[c].total = accounts[c].total - a]_vars

\* C8 as stated: once an account is locked, every later deposit and
\* withdrawal of that client fails with Locked, leaves total and held
\* unchanged and leaves no record for its tx id.
C8_LockedRejectsAsLocked ==
    [][(/\ last'.ty \in Monetary
        /\ last'.client_id \in DOMAIN accounts
        /\ accounts[last'.client_id].locked
        /\ last'.err # "Panic")
       => (/\ last'.err = "Locked"
           /\ accounts'[last'.client_id].total = accounts[last'.client_id].total
           /\ accounts'[last'.client_id].held = accounts[last'.client_id].held
           /\ last'.tx \notin DOMAIN transactions')]_vars

\* C8 amended: a locked account stays locked, and every later deposit and
\* withdrawal of that client leaves all accounts and all records unchanged;
\* it fails with Locked when its tx id has no record and with Duplicate when
\* its tx id already has one (a debug build aborts on an amount of i64::MIN
\* before the ledger is reached).
C8_LockedRejectsMonetary ==
    [][/\ \A c \in DOMAIN accounts :
             accounts[c].locked => (c \in DOMAIN accounts' /\ accounts'[c].locked)
       /\ (/\ last'.ty \in Monetary
           /\ last'.client_id \in DOMAIN accounts
           /\ accounts[last'.client_id].locked)
          => (/\ accounts' = accounts
              /\ transactions' = transactions
              /\ \/ last'.err = "Panic"
                 \/ last'.tx \notin DOMAIN transactions /\ last'.err = "Locked"
                 \/ last'.tx \in DOMAIN transactions /\ last'.err = "Duplicate")]_vars

\* a deposit to a locked account was rejected as Locked and left no record
C8_Witness ==
    /\ last.ty = "Deposit"
    /\ last.err = "Locked"
    /\ accounts[last.client_id].locked
    /\ last.tx \notin DOMAIN transactions

\* C9: when the drain loop exits, the producer is gone, the queue is empty
\* and the events applied are exactly the events pushed, in push order.
C9_DrainLoopAppliesAllPushed ==
    cpc = "done" => (is_abandoned /\ queue = <<>> /\ applied = pushed)

\* C10: an event rejected with any error kind leaves the account table,
\* including its set of client ids, as it was before the event.
C10_RejectedLeavesNoRow ==
    [][last'.err \in TransactionError => accounts' = accounts]_vars

\* C11: after any sequence of events every account has held >= 0
\* (available <= total), here even when only non-negative amounts were ever
\* recorded.
C11_HeldNeverNegative ==
    NoNegativeRecord => \A c \in DOMAIN accounts : accounts[c].held >= 0

\* C12: right after an accepted deposit of client c (its record is in state
\* None), dispute(c, tx) followed at once by resolve(c, tx) gives the account
\* of c back as it was and leaves the record Resolved.
C12_DisputeResolveRoundTrip ==
    (last.ty = "Deposit" /\ last.err = "Ok" /\ NoNegativeRecord)
    => LET c == last.client_id
           t == last.tx
           d == handle_dispute(transactions, accounts, c, t)
           r == handle_resolve(d.transactions, d.accounts, c, t)
       IN  /\ r.accounts[c] = accounts[c]
           /\ r.transactions[t].flags = "Resolved"

\* C13: under fair scheduling of both threads, for every finite source the
\* drain loop eventually exits, so that the account table is yielded.
C13_DrainLoopTerminates == <>(cpc = "done")

\* C14: a full queue only delays the producer: every row the source has
\* yielded was enqueued, and the producer never dies on a full queue.
C14_FullQueueOnlyDelays == ppc # "panicked" /\ Len(pushed) = rows

\* C18: for every amount, the most negative included, the amount handed to
\* the ledger after normalization is >= 0 and the normalization does not
\* abort the run.
C18_NormalizedNonNegative == cpc # "panicked" /\ NoNegativeRecord

AccountFailures == {"Locked", "InsufficientFunds", "Overflow"}

\* C15: after a deposit or withdrawal that fails in the account operation
\* (Locked, InsufficientFunds, Overflow) the record mapping is what it was
\* before the event, with no record for the event's tx id, and the client's
\* total, held and locked are unchanged (those of a fresh account for a
\* client seen for the first time).
C15_FailedMonetaryRolledBack ==
    [][(last'.ty \in Monetary /\ last'.err \in AccountFailures)
       => LET c == last'.client_id IN
          /\ transactions' = transactions
          /\ last'.tx \notin DOMAIN transactions'
          /\ c \in DOMAIN accounts'
          /\ accounts'[c] = (IF c \in DOMAIN accounts THEN accounts[c] ELSE DefaultAccount)]_vars

\* a deposit that overflowed the total of an account with a recorded deposit
\* was rolled back
C15_Witness ==
    /\ last.ty = "Deposit"
    /\ last.err = "Overflow"
    /\ last.tx \notin DOMAIN transactions
    /\ DOMAIN transactions # {}
    /\ accounts[last.client_id].total > 0

C17_WithdrawalNotStored ==
    (last.ty = "Withdrawal" /\ last.err = "Ok")
    => \A c \in Clients :
         \A r \in {handle_dispute(transactions, accounts, c, last.tx),
                   handle_resolve(transactions, accounts, c, last.tx),
                   handle_chargeback(transactions, accounts, c, last.tx)} :
            r.err = "NotFound" /\ r.accounts = accounts

RECURSIVE SumAmounts(_)
\* the sum of the amounts of the records of a set of tx ids
SumAmounts(T) ==
    IF T = {} THEN 0
    ELSE LET t == CHOOSE x \in T : TRUE IN transactions[t].amount + SumAmounts(T \ {t})

\* the records of client c that are under active dispute
DisputedOf(c) ==
    {t \in DOMAIN transactions : owner[t] = c /\ transactions[t].flags = "Disputed"}

\* C19: each account's held equals the sum of the amounts of the client's own
\* records that are Disputed, here even when only non-negative amounts were
\* ever recorded.
C19_HeldIsSumOfDisputed ==
    NoNegativeRecord
    => \A c \in DOMAIN accounts : accounts[c].held = SumAmounts(DisputedOf(c))

\* C20: processing an event of client c and tx id t leaves every account
\* other than c's and every record other than t's unchanged.
C20_FrameOfEvent ==
    [][last'.ty \in TransactionType
       => /\ \A c \in Clients \ {last'.client_id} :
                /\ (c \in DOMAIN accounts') = (c \in DOMAIN accounts)
                /\ c \in DOMAIN accounts => accounts'[c] = accounts[c]
          /\ \A t \in Txs \ {last'.tx} :
                /\ (t \in DOMAIN transactions') = (t \in DOMAIN transactions)
                /\ t \in DOMAIN transactions => transactions'[t] = transactions[t]]_vars

\* a dispute was applied while another client holds funds and another record
\* exists
C20_Witness ==
    /\ last.ty = "Dispute"
    /\ last.err = "Ok"
    /\ accounts[last.client_id].held > 0
    /\ \E c \in DOMAIN accounts : c # last.client_id /\ accounts[c].total > 0
    /\ \E t \in DOMAIN transactions : t # last.tx

TypeOK ==
    /\ DOMAIN transactions \subseteq Txs
    /\ \A t \in DOMAIN transactions :
          /\ InRange(transactions[t].amount)
          /\ transactions[t].flags \in TransactionFlags
    /\ DOMAIN owner = DOMAIN transactions
    /\ DOMAIN accounts \subseteq Clients
    /\ \A c \in DOMAIN accounts :
          /\ InRange(accounts[c].total)
          /\ InRange(accounts[c].held)
          /\ accounts[c].locked \in BOOLEAN
    /\ last.err \in TransactionError \cup {"Ok", "Panic"}
    /\ Len(queue) <= QueueCap
    /\ rows <= MaxEvents
====
